---- MODULE Spec2Model ----
(***************************************************************************)
(* Model of meshgraphnets/cloth_model.py: the Model facade of the static   *)
(* DeformingPlate simulator.  The state is the three normalizers the       *)
(* constructor creates; the operations are Predict (Model._build) and Loss *)
(* (Model.loss).  Every intermediate tensor of the last call is kept in a  *)
(* variable of the same name so that it can be inspected; a call clears    *)
(* the results of the call before it.                                      *)
(*                                                                         *)
(* Tensors are sequences: row i of a [n, d] tensor is element i, so node   *)
(* ids run over 1..n where the code's run over 0..n-1.  Values are         *)
(* integers (a fixed-point grid): division and square root round down.     *)
(* The node positions are taken from the corners of a 3-4-12 box, whose    *)
(* pairwise distances (3, 4, 5, 12, 13) are integers, so every Euclidean   *)
(* norm the edge features take is exact.                                   *)
(***************************************************************************)
EXTENDS Integers, Sequences, FiniteSets

VARIABLES
  node_normalizer,    \* self._node_normalizer
  edge_normalizer,    \* self._edge_normalizer
  output_normalizer,  \* self._output_normalizer
  op,                 \* the last call: "init", "predict" or "loss"
  inputs,             \* its inputs
  node_features,      \* _build_graph: node features before normalization
  edge_features,      \* _build_graph: edge features before normalization
  is_training,        \* the flag _build_graph handed to both normalizers
  graph,              \* the MultiGraph handed to the learned model
  network_output,     \* what the learned model returned
  target_normalized,  \* loss: the normalized target displacement
  error,              \* loss: per-node squared error
  new_position,       \* what Predict returned
  loss,               \* what Loss returned: the mean sum/count (0/0 is NaN)
  remembered          \* an earlier Predict: <<>> or <<call>>; stale after a Loss

vars == <<node_normalizer, edge_normalizer, output_normalizer, op,
          inputs, node_features, edge_features, is_training, graph,
          network_output, target_normalized, error, new_position, loss,
          remembered>>

----------------------------------------------------------------------------
(* Bounds *)

\* Loss calls in a run.
MaxLoss == 2

----------------------------------------------------------------------------
(* Arithmetic on vectors and tensors *)

RECURSIVE Sum(_)
Sum(s) == IF s = <<>> THEN 0 ELSE Head(s) + Sum(Tail(s))

RECURSIVE ISqrtFrom(_, _)
ISqrtFrom(r, x) == IF (r + 1) * (r + 1) > x THEN r ELSE ISqrtFrom(r + 1, x)

\* tf.sqrt on the grid.
ISqrt(x) == IF x <= 0 THEN 0 ELSE ISqrtFrom(0, x)

Max(a, b) == IF a >= b THEN a ELSE b

VecSub(u, v) == [k \in DOMAIN u |-> u[k] - v[k]]

VecAdd(u, v) == [k \in DOMAIN u |-> u[k] + v[k]]

\* tf.norm(x, axis=-1, keepdims=True) of one row: a 1-vector.
Norm(v) == <<ISqrt(Sum([k \in DOMAIN v |-> v[k] * v[k]]))>>

\* tf.gather(params, indices).
Gather(params, indices) == [e \in DOMAIN indices |-> params[indices[e]]]

\* tf.zeros_like.
ZerosLike(t) == [i \in DOMAIN t |-> [k \in DOMAIN t[i] |-> 0]]

\* tf.one_hot(indices, depth): row i holds 1 at index indices[i] (position
\* indices[i] + 1 of the sequence), 0 elsewhere; an index outside 0..depth-1
\* gives a zero row.
OneHot(indices, depth) ==
  [i \in DOMAIN indices |-> [j \in 1..depth |-> IF j - 1 = indices[i] THEN 1 ELSE 0]]

\* tf.concat(parts, axis=-1) of tensors with the same rows.
RECURSIVE ConcatRow(_, _)
ConcatRow(parts, i) ==
  IF parts = <<>> THEN <<>> ELSE Head(parts)[i] \o ConcatRow(Tail(parts), i)

ConcatLast(parts) == [i \in DOMAIN parts[1] |-> ConcatRow(parts, i)]

\* t[:, 0]: the first column.
FirstColumn(t) == [i \in DOMAIN t |-> t[i][1]]

----------------------------------------------------------------------------
(* Collaborators of cloth_model.py *)

\* common.NodeType: the node-type categories.
NORMAL == 0
OBSTACLE == 1
HANDLE == 3
NodeTypeSIZE == 9

\* normalization.Normalizer: running statistics of a feature stream.
StdEpsilon == 1

NewNormalizer(size) ==
  [acc_count |-> 0,
   acc_sum |-> [k \in 1..size |-> 0],
   acc_sum_squared |-> [k \in 1..size |-> 0],
   num_accumulations |-> 0]

\* One more batch in the statistics.
Accumulate(norm, batch) ==
  [acc_count |-> norm.acc_count + Len(batch),
   acc_sum |-> [k \in DOMAIN norm.acc_sum |->
                  norm.acc_sum[k] + Sum([i \in DOMAIN batch |-> batch[i][k]])],
   acc_sum_squared |-> [k \in DOMAIN norm.acc_sum_squared |->
                  norm.acc_sum_squared[k]
                    + Sum([i \in DOMAIN batch |-> batch[i][k] * batch[i][k]])],
   num_accumulations |-> norm.num_accumulations + 1]

SafeCount(norm) == Max(norm.acc_count, 1)

Quotients(sums, count) == [k \in DOMAIN sums |-> sums[k] \div count]

Mean(norm) == Quotients(norm.acc_sum, SafeCount(norm))

\* sqrt(E[x^2] - E[x]^2), never below StdEpsilon.
Deviations(sums, squares, count) ==
  [k \in DOMAIN sums |->
     Max(ISqrt((count * squares[k] - sums[k] * sums[k]) \div (count * count)),
         StdEpsilon)]

StdWithEpsilon(norm) == Deviations(norm.acc_sum, norm.acc_sum_squared, SafeCount(norm))

\* (batch - mean) / std, row by row.
Scale(batch, mean, std) ==
  [i \in DOMAIN batch |-> [k \in DOMAIN batch[i] |-> (batch[i][k] - mean[k]) \div std[k]]]

\* batch * std + mean, row by row.
Unscale(batch, mean, std) ==
  [i \in DOMAIN batch |-> [k \in DOMAIN batch[i] |-> batch[i][k] * std[k] + mean[k]]]

\* The forward transform under given statistics.
Standardize(norm, batch) == Scale(batch, Mean(norm), StdWithEpsilon(norm))

\* Normalizer(batch, accumulate): the statistics after the call and the
\* normalized batch.  With accumulate the batch enters the statistics
\* first and is normalized by the statistics that include it.
NormalizerCall(norm, batch, accumulate) ==
  LET after == IF accumulate THEN Accumulate(norm, batch) ELSE norm
  IN  [norm |-> after, out |-> Standardize(after, batch)]

\* Normalizer.inverse(batch): reads the statistics, changes nothing.
Inverse(norm, batch) == Unscale(batch, Mean(norm), StdWithEpsilon(norm))

\* common.triangles_to_edges(cells): one (sender, receiver) pair for each
\* undirected mesh edge.  The three sides of every cell, each written with
\* the larger node id as sender, duplicates dropped, first occurrence kept.
CellSides(cells) ==
  [e \in 1..(3 * Len(cells)) |->
     LET c == cells[((e - 1) % Len(cells)) + 1]
         a == c[((e - 1) \div Len(cells)) + 1]
         b == c[((((e - 1) \div Len(cells)) + 1) % 3) + 1]
     IN  <<Max(a, b), IF a >= b THEN b ELSE a>>]

RECURSIVE Unique(_)
Unique(s) ==
  IF s = <<>> THEN <<>>
  ELSE LET front == Unique(SubSeq(s, 1, Len(s) - 1))
           last == s[Len(s)]
       IN  IF \E j \in DOMAIN front : front[j] = last
           THEN front ELSE Append(front, last)

TrianglesToEdgesKeepDuplicates(cells) ==
  LET edges == CellSides(cells)
  IN  [senders |-> [e \in DOMAIN edges |-> edges[e][1]],
       receivers |-> [e \in DOMAIN edges |-> edges[e][2]]]

TrianglesToEdges(cells) ==
  LET edges == Unique(CellSides(cells))
  IN  [senders |-> [e \in DOMAIN edges |-> edges[e][1]],
       receivers |-> [e \in DOMAIN edges |-> edges[e][2]]]

\* The learned model: a fixed function of the graph, one 3-vector per node.
\* This stand-in adds, per node, the first three features of the incoming
\* edges to the node's own features for the first three node types.
LearnedModel(g) ==
  LET es == g.edge_sets[1]
  IN  [i \in DOMAIN g.node_features |->
         [k \in 1..3 |->
            g.node_features[i][3 + k]
              + Sum([e \in DOMAIN es.features |->
                       IF es.receivers[e] = i THEN es.features[e][k] ELSE 0])]]

----------------------------------------------------------------------------
(* Model.__init__ *)

OutputSize == 3
EdgeSize == 8
NodeSize == 3 + NodeTypeSIZE

----------------------------------------------------------------------------
(* Model._build_graph *)

VelocityFromWorldPos(in) == in.world_pos

Velocity(in) == ZerosLike(in.world_pos)

NodeType(in) == OneHot(FirstColumn(in.node_type), NodeTypeSIZE)

NodeFeatures(in) == ConcatLast(<<Velocity(in), NodeType(in)>>)

RelativeWorldPosReversed(in, senders, receivers) ==
  LET s == Gather(in.world_pos, senders)
      r == Gather(in.world_pos, receivers)
  IN  [e \in DOMAIN senders |-> VecSub(r[e], s[e])]

RelativeWorldPos(in, senders, receivers) ==
  LET s == Gather(in.world_pos, senders)
      r == Gather(in.world_pos, receivers)
  IN  [e \in DOMAIN senders |-> VecSub(s[e], r[e])]

RelativeMeshPos(in, senders, receivers) ==
  LET s == Gather(in.mesh_pos, senders)
      r == Gather(in.mesh_pos, receivers)
  IN  [e \in DOMAIN senders |-> VecSub(s[e], r[e])]

EdgeFeatures(in, senders, receivers) ==
  LET relative_world_pos == RelativeWorldPos(in, senders, receivers)
      relative_mesh_pos == RelativeMeshPos(in, senders, receivers)
  IN  [e \in DOMAIN senders |->
         relative_world_pos[e] \o Norm(relative_world_pos[e])
           \o relative_mesh_pos[e] \o Norm(relative_mesh_pos[e])]

MeshEdgesSwapped(features, senders, receivers) ==
  [name |-> "mesh_edges", features |-> features,
   receivers |-> senders, senders |-> receivers]

\* core_model.EdgeSet(name=..., features=..., receivers=..., senders=...).
MeshEdges(features, senders, receivers) ==
  [name |-> "mesh_edges", features |-> features,
   receivers |-> receivers, senders |-> senders]

\* The graph, the two normalizers after the call, and the raw features.
BuildGraph(in, training, node_norm, edge_norm) ==
  LET raw_nodes == NodeFeatures(in)
      edges == TrianglesToEdges(in.cells)
      raw_edges == EdgeFeatures(in, edges.senders, edges.receivers)
      edge_call == NormalizerCall(edge_norm, raw_edges, training)
      node_call == NormalizerCall(node_norm, raw_nodes, training)
  IN  [graph |-> [node_features |-> node_call.out,
                  edge_sets |-> <<MeshEdges(edge_call.out, edges.senders,
                                            edges.receivers)>>],
       node_normalizer |-> node_call.norm,
       edge_normalizer |-> edge_call.norm,
       node_features |-> raw_nodes,
       edge_features |-> raw_edges,
       is_training |-> training]

----------------------------------------------------------------------------
(* Model._update, Model._build, Model.loss *)

UpdateWithoutInverse(in, per_node_network_output, output_norm) ==
  LET cur_position == in.world_pos
  IN  [i \in DOMAIN cur_position |->
         VecAdd(cur_position[i], per_node_network_output[i])]

UpdateFromTarget(in, per_node_network_output, output_norm) ==
  LET displacement == Inverse(output_norm, per_node_network_output)
      cur_position == in.target_world_pos
  IN  [i \in DOMAIN cur_position |-> VecAdd(cur_position[i], displacement[i])]

Update(in, per_node_network_output, output_norm) ==
  LET displacement == Inverse(output_norm, per_node_network_output)
      cur_position == in.world_pos
  IN  [i \in DOMAIN cur_position |-> VecAdd(cur_position[i], displacement[i])]

BuildIsTrainingFlipped == TRUE

\* The flag _build hands to _build_graph.
BuildIsTraining == FALSE

LossIsTrainingFlipped == FALSE

\* The flag loss hands to _build_graph.
LossIsTraining == TRUE

TargetDisplacement(in) ==
  LET cur_position == in.world_pos
      target_position == in.target_world_pos
  IN  [i \in DOMAIN cur_position |-> VecSub(target_position[i], cur_position[i])]

\* Normalizer's accumulate argument when the caller gives none.
DefaultAccumulate == TRUE

LossMaskAll(in) == [i \in DOMAIN in.node_type |-> TRUE]

LossMask(in) == [i \in DOMAIN in.node_type |-> FirstColumn(in.node_type)[i] = NORMAL]

\* tf.reduce_sum((target_normalized - network_output) ** 2, axis=1).
SquaredError(normalized, output) ==
  [i \in DOMAIN normalized |->
     Sum([k \in DOMAIN normalized[i] |->
            (normalized[i][k] - output[i][k]) * (normalized[i][k] - output[i][k])])]

\* error[loss_mask]: the rows the mask selects, in order.
RECURSIVE BooleanMask(_, _)
BooleanMask(t, mask) ==
  IF t = <<>> THEN <<>>
  ELSE LET front == BooleanMask(SubSeq(t, 1, Len(t) - 1), SubSeq(mask, 1, Len(t) - 1))
       IN  IF mask[Len(t)] THEN Append(front, t[Len(t)]) ELSE front

ReduceMeanOrZero(xs) ==
  IF xs = <<>> THEN [sum |-> 0, count |-> 1] ELSE [sum |-> Sum(xs), count |-> Len(xs)]

\* tf.reduce_mean of a vector: the quotient sum/count, kept as the pair.
\* Over no elements it is 0/0, which floating point evaluates to NaN.
ReduceMean(xs) == [sum |-> Sum(xs), count |-> Len(xs)]

IsNaN(mean) == mean.count = 0

\* Model._build(inputs): what the call computes from the inputs and the
\* normalizers.
Build(in, node_norm, edge_norm, output_norm) ==
  LET built == BuildGraph(in, BuildIsTraining, node_norm, edge_norm)
      per_node_network_output == LearnedModel(built.graph)
  IN  [built |-> built,
       network_output |-> per_node_network_output,
       new_position |-> Update(in, per_node_network_output, output_norm)]

\* Model.loss(inputs): what the call computes from the inputs and the
\* normalizers.
LossOf(in, node_norm, edge_norm, output_norm) ==
  LET built == BuildGraph(in, LossIsTraining, node_norm, edge_norm)
      output == LearnedModel(built.graph)
      target_call == NormalizerCall(output_norm, TargetDisplacement(in),
                                    DefaultAccumulate)
      err == SquaredError(target_call.out, output)
  IN  [built |-> built,
       network_output |-> output,
       output_normalizer |-> target_call.norm,
       target_normalized |-> target_call.out,
       error |-> err,
       loss |-> ReduceMean(BooleanMask(err, LossMask(in)))]

----------------------------------------------------------------------------
(* The inputs of a call *)

\* Corners of the 3-4-12 box.
Corners == <<<<0, 0, 0>>, <<3, 4, 0>>, <<3, 4, 12>>, <<0, 0, 12>>>>

\* The rest configuration, and the deformed one (corners 1/2 and 3/4
\* exchanged).
MeshPos(n) == [i \in 1..n |-> Corners[i]]

WorldPos(n) == [i \in 1..n |-> Corners[IF i % 2 = 1 THEN i + 1 ELSE i - 1]]

\* A single triangle, and two triangles sharing the side 2-3, each with the
\* node-type patterns it is run with.
Meshes ==
  { [n |-> 3, cells |-> <<<<1, 2, 3>>>>, patterns |-> {"normal", "obstacle"}],
    [n |-> 4, cells |-> <<<<1, 2, 3>>, <<3, 2, 4>>>>, patterns |-> {"normal", "mixed"}] }

\* node_type has two columns; only the first is the node's type.
NodeTypes(n, pattern) ==
  [i \in 1..n |->
     CASE pattern = "normal" -> <<NORMAL, HANDLE>>
       [] pattern = "obstacle" -> <<OBSTACLE, NORMAL>>
       [] OTHER -> IF i % 2 = 1 THEN <<NORMAL, OBSTACLE>> ELSE <<HANDLE, NORMAL>>]

\* Targets: the odd nodes move, the even nodes move or stay.
TargetWorldPos(n, even_move) ==
  [i \in 1..n |->
     IF i % 2 = 1 \/ even_move
     THEN VecAdd(WorldPos(n)[i], <<i, 0 - 2, 2 * i>>)
     ELSE WorldPos(n)[i]]

MakeInputs(m, pattern, even_move) ==
  [world_pos |-> WorldPos(m.n),
   mesh_pos |-> MeshPos(m.n),
   node_type |-> NodeTypes(m.n, pattern),
   cells |-> m.cells,
   target_world_pos |-> TargetWorldPos(m.n, even_move)]

Inputs ==
  UNION { { MakeInputs(m, pattern, even_move) :
              pattern \in m.patterns, even_move \in BOOLEAN } : m \in Meshes }

\* What Predict is given: the inputs without the training target.
Key(in) ==
  [world_pos |-> in.world_pos, mesh_pos |-> in.mesh_pos,
   node_type |-> in.node_type, cells |-> in.cells]

----------------------------------------------------------------------------
(* The state machine *)

NoInputs ==
  [world_pos |-> <<>>, mesh_pos |-> <<>>, node_type |-> <<>>, cells |-> <<>>,
   target_world_pos |-> <<>>]

NoGraph == [node_features |-> <<>>, edge_sets |-> <<>>]

\* The loss variable while the last call was not a Loss.
NoLoss == [sum |-> 0, count |-> 0 - 1]

Init ==
  /\ output_normalizer = NewNormalizer(OutputSize)
  /\ node_normalizer = NewNormalizer(NodeSize)
  /\ edge_normalizer = NewNormalizer(EdgeSize)
  /\ op = "init"
  /\ inputs = NoInputs
  /\ node_features = <<>>
  /\ edge_features = <<>>
  /\ is_training = FALSE
  /\ graph = NoGraph
  /\ network_output = <<>>
  /\ target_normalized = <<>>
  /\ error = <<>>
  /\ new_position = <<>>
  /\ loss = NoLoss
  /\ remembered = <<>>

\* A call of Model._build.  The first Predict since the last Loss is
\* remembered.
Predict(in) ==
  \E call \in {Build(in, node_normalizer, edge_normalizer, output_normalizer)} :
      /\ op' = "predict"
      /\ inputs' = in
      /\ node_features' = call.built.node_features
      /\ edge_features' = call.built.edge_features
      /\ is_training' = call.built.is_training
      /\ graph' = call.built.graph
      /\ node_normalizer' = call.built.node_normalizer
      /\ edge_normalizer' = call.built.edge_normalizer
      /\ network_output' = call.network_output
      /\ new_position' = call.new_position
      /\ remembered' = IF remembered # <<>> /\ ~remembered[1].stale THEN remembered
                       ELSE <<[inputs |-> in,
                               graph |-> call.built.graph,
                               node_features |-> call.built.node_features,
                               edge_features |-> call.built.edge_features,
                               new_position |-> call.new_position,
                               stale |-> FALSE]>>
      /\ target_normalized' = <<>>
      /\ error' = <<>>
      /\ loss' = NoLoss
      /\ UNCHANGED output_normalizer

\* A call of Model.loss.  What is remembered becomes stale, and is
\* forgotten by the next Loss.
Loss(in) ==
  \E call \in {LossOf(in, node_normalizer, edge_normalizer, output_normalizer)} :
      /\ output_normalizer.num_accumulations < MaxLoss
      /\ op' = "loss"
      /\ inputs' = in
      /\ node_features' = call.built.node_features
      /\ edge_features' = call.built.edge_features
      /\ is_training' = call.built.is_training
      /\ graph' = call.built.graph
      /\ node_normalizer' = call.built.node_normalizer
      /\ edge_normalizer' = call.built.edge_normalizer
      /\ network_output' = call.network_output
      /\ output_normalizer' = call.output_normalizer
      /\ target_normalized' = call.target_normalized
      /\ error' = call.error
      /\ loss' = call.loss
      /\ remembered' = [j \in {k \in DOMAIN remembered : ~remembered[k].stale} |->
                          [remembered[j] EXCEPT !.stale = TRUE]]
      /\ new_position' = <<>>

Next ==
  \/ \E in \in Inputs : Predict(in)
  \/ \E in \in Inputs : Loss(in)

Spec == Init /\ [][Next]_vars

----------------------------------------------------------------------------
(* Properties *)

Called == op \in {"predict", "loss"}

Nodes == DOMAIN inputs.world_pos

IsNormal(in, i) == in.node_type[i][1] = NORMAL

\* The mesh-edge set of the last call's graph.
EdgeSet == graph.edge_sets[1]

\* The unordered node pairs that are a side of some cell.
UndirectedEdges(cells) ==
  { pair \in { {cells[c][a], cells[c][b]} : c \in DOMAIN cells, a \in 1..3, b \in 1..3 } :
      Cardinality(pair) = 2 }

SumOfSquares(v) == Sum([k \in DOMAIN v |-> v[k] * v[k]])

\* C1: a Predict call leaves the running statistics of the node, edge and
\* output normalizers as they were; only Loss calls change them.
C1_PredictKeepsStatistics ==
  [][op' = "predict" =>
       /\ node_normalizer' = node_normalizer
       /\ edge_normalizer' = edge_normalizer
       /\ output_normalizer' = output_normalizer]_vars

\* A Predict after a Loss: there are statistics to keep.
C1_Witness ==
  /\ op = "predict"
  /\ node_normalizer.acc_count > 0
  /\ edge_normalizer.acc_count > 0
  /\ output_normalizer.acc_count > 0

\* C2: every Loss call makes each of the three normalizers accumulate
\* exactly one batch: the raw node features, the raw edge features and the
\* target displacement.
C2_LossAccumulatesOnce ==
  [][op' = "loss" =>
       /\ node_normalizer'.num_accumulations = node_normalizer.num_accumulations + 1
       /\ edge_normalizer'.num_accumulations = edge_normalizer.num_accumulations + 1
       /\ output_normalizer'.num_accumulations = output_normalizer.num_accumulations + 1
       /\ node_normalizer' = Accumulate(node_normalizer, node_features')
       /\ edge_normalizer' = Accumulate(edge_normalizer, edge_features')
       /\ output_normalizer'.acc_count
            = output_normalizer.acc_count + Len(inputs'.world_pos)
       /\ is_training']_vars

\* A Loss that follows a Loss.
C2_Witness ==
  /\ op = "loss"
  /\ node_normalizer.num_accumulations = 2
  /\ edge_normalizer.num_accumulations = 2
  /\ output_normalizer.num_accumulations = 2

\* C3: Predict returns, node by node and in node order, world_pos plus the
\* output normalizer's inverse of the learned model's output on the graph
\* built without training; a node whose inverse-normalized output is zero
\* keeps its position.
C3_PredictAddsInverseOutput ==
  op = "predict" =>
    /\ ~is_training
    /\ network_output = LearnedModel(graph)
    /\ DOMAIN new_position = Nodes
    /\ \A i \in Nodes :
         /\ DOMAIN new_position[i] = 1..3
         /\ \A k \in 1..3 :
              new_position[i][k] - inputs.world_pos[i][k]
                = network_output[i][k] * StdWithEpsilon(output_normalizer)[k]
                    + Mean(output_normalizer)[k]
         /\ Inverse(output_normalizer, network_output)[i] = <<0, 0, 0>>
              => new_position[i] = inputs.world_pos[i]

\* A Predict under statistics that make the inverse transform differ from
\* the identity, in which some node moves.
C3_Witness ==
  /\ op = "predict"
  /\ output_normalizer.acc_count > 0
  /\ \E i \in Nodes : new_position[i] # inputs.world_pos[i]
  /\ \E i \in Nodes :
       VecSub(new_position[i], inputs.world_pos[i]) # network_output[i]

\* C4 as stated: Loss is the mean over the NORMAL nodes of the squared error
\* between the normalized target displacement and the raw model output, and
\* changing the target of non-NORMAL nodes changes no error of a NORMAL node.
C4_TargetOfMaskedNodesIrrelevant ==
  [][op' = "loss" =>
       /\ loss'.count = Cardinality({i \in DOMAIN error' : IsNormal(inputs', i)})
       /\ loss'.sum = Sum([i \in DOMAIN error' |->
                             IF IsNormal(inputs', i) THEN error'[i] ELSE 0])
       /\ \A other \in Inputs :
            ( /\ Key(other) = Key(inputs')
              /\ \A i \in DOMAIN other.world_pos :
                   IsNormal(other, i)
                     => other.target_world_pos[i] = inputs'.target_world_pos[i] )
            => \A i \in DOMAIN other.world_pos :
                 IsNormal(other, i)
                   => LossOf(other, node_normalizer, edge_normalizer,
                             output_normalizer).error[i] = error'[i]]_vars

\* C4, amended: Loss is the mean, over exactly the NORMAL nodes, of the
\* squared error summed over the 3 components between the normalized target
\* displacement and the raw model output; the error of a non-NORMAL node
\* never enters the mean.
C4_LossIsMeanOverNormalNodes ==
  op = "loss" =>
    /\ network_output = LearnedModel(graph)
    /\ target_normalized
         = Standardize(output_normalizer,
                       [i \in Nodes |->
                          VecSub(inputs.target_world_pos[i], inputs.world_pos[i])])
    /\ DOMAIN error = Nodes
    /\ \A i \in Nodes :
         error[i] = SumOfSquares(VecSub(target_normalized[i], network_output[i]))
    /\ loss.count = Cardinality({i \in Nodes : IsNormal(inputs, i)})
    /\ loss.sum = Sum([i \in Nodes |-> IF IsNormal(inputs, i) THEN error[i] ELSE 0])

\* A Loss on a mesh with NORMAL and non-NORMAL nodes, where a masked node
\* has a nonzero error of its own.
C4_Witness ==
  /\ op = "loss"
  /\ \E i \in Nodes : IsNormal(inputs, i) /\ error[i] > 0
  /\ \E i \in Nodes : ~IsNormal(inputs, i) /\ error[i] > 0

\* C5: Loss is NaN (the mean of no elements) exactly when no node of the
\* mesh is NORMAL; with a NORMAL node it is a number.
C5_LossIsNaNIffNoNormalNode ==
  op = "loss" =>
    /\ IsNaN(loss) <=> (\A i \in Nodes : ~IsNormal(inputs, i))
    /\ (\A i \in Nodes : ~IsNormal(inputs, i)) => loss = [sum |-> 0, count |-> 0]
    /\ (\E i \in Nodes : IsNormal(inputs, i)) => loss.count > 0

\* A Loss on a mesh without NORMAL nodes.
C5_Witness ==
  /\ op = "loss"
  /\ Nodes # {}
  /\ \A i \in Nodes : ~IsNormal(inputs, i)
  /\ IsNaN(loss)

\* C6: the mesh-edge set holds as many edges as cells has unique undirected
\* edges.
C6_EdgeCountIsUniqueUndirected ==
  Called =>
    /\ Len(EdgeSet.senders) = Cardinality(UndirectedEdges(inputs.cells))
    /\ Len(EdgeSet.receivers) = Len(EdgeSet.senders)
    /\ Len(EdgeSet.features) = Len(EdgeSet.senders)

\* Two cells sharing a side: six sides, five edges.
C6_Witness ==
  /\ Called
  /\ Len(inputs.cells) = 2
  /\ Len(EdgeSet.senders) = 5

\* C7: the raw feature of every edge (s, r) the converter returns is, in
\* this order, world_pos[s] - world_pos[r], its norm, mesh_pos[s] -
\* mesh_pos[r], its norm; world positions (0,0,0) and (3,4,0) give norm 5.
\* These rows are what the edge normalizer is given.
C7_EdgeFeatures ==
  Called =>
    LET edges == TrianglesToEdges(inputs.cells)
    IN  /\ DOMAIN edge_features = DOMAIN edges.senders
        /\ EdgeSet.features = Standardize(edge_normalizer, edge_features)
        /\ \A e \in DOMAIN edge_features :
             LET f == edge_features[e]
                 s == edges.senders[e]
                 r == edges.receivers[e]
             IN  /\ Len(f) = EdgeSize
                 /\ SubSeq(f, 1, 3) = VecSub(inputs.world_pos[s], inputs.world_pos[r])
                 /\ f[4] >= 0 /\ f[4] * f[4] = SumOfSquares(SubSeq(f, 1, 3))
                 /\ SubSeq(f, 5, 7) = VecSub(inputs.mesh_pos[s], inputs.mesh_pos[r])
                 /\ f[8] >= 0 /\ f[8] * f[8] = SumOfSquares(SubSeq(f, 5, 7))
                 /\ {inputs.world_pos[s], inputs.world_pos[r]}
                      = {<<0, 0, 0>>, <<3, 4, 0>>} => f[4] = 5

\* An edge between world positions (3,4,0) and (0,0,0) whose relative
\* world position differs from its relative mesh position.
C7_Witness ==
  /\ Called
  /\ \E e \in DOMAIN edge_features :
       /\ inputs.world_pos[EdgeSet.senders[e]] = <<0, 0, 0>>
       /\ inputs.world_pos[EdgeSet.receivers[e]] = <<3, 4, 0>>
       /\ edge_features[e][4] = 5
       /\ SubSeq(edge_features[e], 1, 3) # SubSeq(edge_features[e], 5, 7)

\* C8: the raw feature of every node is 3 + NodeType.SIZE wide, as the node
\* normalizer is: three zeros, then a one-hot vector whose single 1 is at
\* the index the first column of node_type gives.
C8_NodeFeatures ==
  Called =>
    /\ DOMAIN node_features = Nodes
    /\ graph.node_features = Standardize(node_normalizer, node_features)
    /\ \A i \in Nodes :
         LET f == node_features[i]
         IN  /\ Len(f) = 3 + NodeTypeSIZE
             /\ Len(f) = Len(node_normalizer.acc_sum)
             /\ SubSeq(f, 1, 3) = <<0, 0, 0>>
             /\ \A j \in 0..(NodeTypeSIZE - 1) :
                  f[3 + j + 1] = IF j = inputs.node_type[i][1] THEN 1 ELSE 0
             /\ Sum(SubSeq(f, 4, Len(f))) = 1

\* A node away from the origin whose type is not the first category and
\* differs from the second column of node_type.
C8_Witness ==
  /\ Called
  /\ \E i \in Nodes :
       /\ inputs.world_pos[i] # <<0, 0, 0>>
       /\ inputs.node_type[i][1] # 0
       /\ inputs.node_type[i][1] # inputs.node_type[i][2]
       /\ node_features[i][3 + inputs.node_type[i][1] + 1] = 1

\* C9: a Predict on the inputs of an earlier Predict, with no Loss between
\* them, returns the same positions and builds the same graph, whatever
\* the targets of the two calls are.
C9_PredictDependsOnKeyOnly ==
  ( /\ op = "predict"
    /\ remembered # <<>>
    /\ ~remembered[1].stale
    /\ Key(remembered[1].inputs) = Key(inputs) )
  => /\ new_position = remembered[1].new_position
     /\ graph = remembered[1].graph

\* A second Predict on the same mesh state with another target.
C9_Witness ==
  /\ op = "predict"
  /\ remembered # <<>>
  /\ ~remembered[1].stale
  /\ Key(remembered[1].inputs) = Key(inputs)
  /\ remembered[1].inputs.target_world_pos # inputs.target_world_pos
  /\ output_normalizer.acc_count > 0

\* C10: Predict and Loss build their graph from the same raw node features,
\* raw edge features, senders and receivers; they differ in the accumulate
\* flag alone (FALSE in Predict, TRUE in Loss).  The graph has one edge set,
\* "mesh_edges", with the converter's senders and receivers unswapped.
C10_SameGraphInBothPaths ==
  Called =>
    /\ is_training = (op = "loss")
    /\ Len(graph.edge_sets) = 1
    /\ EdgeSet.name = "mesh_edges"
    /\ EdgeSet.senders = TrianglesToEdges(inputs.cells).senders
    /\ EdgeSet.receivers = TrianglesToEdges(inputs.cells).receivers
    /\ graph.node_features = Standardize(node_normalizer, node_features)
    /\ EdgeSet.features = Standardize(edge_normalizer, edge_features)
    /\ (remembered # <<>> /\ Key(remembered[1].inputs) = Key(inputs))
         => /\ node_features = remembered[1].node_features
            /\ edge_features = remembered[1].edge_features
            /\ EdgeSet.senders = remembered[1].graph.edge_sets[1].senders
            /\ EdgeSet.receivers = remembered[1].graph.edge_sets[1].receivers

\* A Loss on the inputs of the Predict before it, whose graph differs from
\* that Predict's only through the statistics.
C10_Witness ==
  /\ op = "loss"
  /\ remembered # <<>>
  /\ remembered[1].stale
  /\ Key(remembered[1].inputs) = Key(inputs)
  /\ Len(EdgeSet.senders) > 0
  /\ graph # remembered[1].graph

====
